---- MODULE Spec2Model ----
(***************************************************************************)
(* GpsLogger control core: the calendar edge detectors                     *)
(* (SchedulerService.h), the WiFi connectivity machine (WiFiService.h) and *)
(* the NTP time-sync machine (NTPService.h).                               *)
(*                                                                         *)
(* Program state is the globals of the three headers plus the real-time    *)
(* clock (rtc, held as epoch seconds) and the network layer's association  *)
(* status (wlStatus).  The remaining variables are history variables that  *)
(* observe the program: `last` is the operation that ran last, what it     *)
(* returned and which collaborator requests it issued; the others count    *)
(* service calls since an event.  No operation of the program reads them.  *)
(***************************************************************************)
EXTENDS Integers, Sequences, FiniteSets, TLC

VARIABLES
    rtc,                    \* the clock: seconds since the epoch
    lastSec, lastMin, lastHr, lastDay,
    wifiState, wifiWaitSecondCounter,
    wlStatus,               \* TRUE iff WiFi.status() == WL_CONNECTED
    ntpState, ntpWaitSecondCounter, ntpAttempts, ntpSuccess,
    last,                   \* history: [op, ret, arg, calls] of the last operation
    prevSeen,               \* history: field value each detector saw at its previous call
    hConn, hErr, hDisc,     \* history: wifiService() calls since an event (Unseen: not tracked)
    sinceBegin,             \* history: wifiService() calls since one of them issued WiFi.begin
    gap,                    \* history: sinceBegin as it was when wifiService() last issued WiFi.begin
    nFail, attAtStart, wrote, \* history of the current time-sync attempt
    completions             \* history: steps into Complete since ntpInit()

schedVars == <<lastSec, lastMin, lastHr, lastDay, prevSeen>>
wifiVars  == <<wifiState, wifiWaitSecondCounter, wlStatus, hConn, hErr, hDisc,
               sinceBegin, gap>>
ntpVars   == <<ntpState, ntpWaitSecondCounter, ntpAttempts, ntpSuccess,
               nFail, attAtStart, wrote, completions>>
vars      == <<rtc, schedVars, wifiVars, ntpVars, last>>

(***************************************************************************)
(* Bounds of the model.                                                    *)
(***************************************************************************)
\* the clock ticks at most MaxTicks seconds past the boot instant
MaxTicks == 4
\* ntpAttempts++ is followed up to this value
MaxAttempts == 1

\* "not tracked" / "no previous call" in the history variables
Unseen == 0 - 2

\* Instants the clock holds at boot, each two seconds before the hour rolls
\* over, so that every field changes within MaxTicks: 00:59:58, 11:59:58 and
\* 12:59:58 of day 1, and 23:59:58 of day 1 (midnight: day 1 -> 2).
BootEpochs == {59 * 60 + 58, 11 * 3600 + 59 * 60 + 58,
               12 * 3600 + 59 * 60 + 58, 23 * 3600 + 59 * 60 + 58}

\* Epochs the time server may return: 00:00:30 of day 3 and 18:45:59 of
\* day 1 (hour 0 and an hour above 12, a later and an earlier day).
NtpEpochs == {2 * 86400 + 30, 18 * 3600 + 45 * 60 + 59}

Op(op, ret, arg, calls) == [op |-> op, ret |-> ret, arg |-> arg, calls |-> calls]

(***************************************************************************)
(* The clock source (ESP32Time rtc) as the headers use it.  Fields are     *)
(* decoded from the epoch; getHour() without argument is the 12-hour form  *)
(* (1..12), getHour(true) the 24-hour form (0..23).  The day of the month  *)
(* is decoded for epochs inside the first month of the epoch.              *)
(***************************************************************************)
getSecond(t) == t % 60

getMinute(t) == (t \div 60) % 60

getHour(t, mode) ==
    LET h == (t \div 3600) % 24
    IN  IF mode THEN h
        ELSE IF h > 12 THEN h - 12
        ELSE IF h = 0 THEN 12
        ELSE h

getDay(t) == (t \div 86400) + 1

(***************************************************************************)
(* SchedulerService.h: the detectors as functions of the field read and    *)
(* the baseline, giving the return value and the new baseline.             *)
(***************************************************************************)
Det(ret, l) == [ret |-> ret, last |-> l]

dayDetect_NoSuppress(day, l) ==
    IF day = l THEN Det(FALSE, l) ELSE Det(TRUE, day)

dayDetect(day, l) ==
    IF day = l THEN Det(FALSE, l)
    ELSE IF l = -1 THEN Det(FALSE, day)
    ELSE Det(TRUE, day)

hourDetect(hr, l) ==
    IF hr = l THEN Det(FALSE, l) ELSE Det(TRUE, hr)

minuteDetect(zmin, l) ==
    IF zmin = l THEN Det(FALSE, l) ELSE Det(TRUE, zmin)

secondDetect_NoStore(sec, l) ==
    IF sec = l THEN Det(FALSE, l) ELSE Det(TRUE, l)

secondDetect(sec, l) ==
    IF sec = l THEN Det(FALSE, l) ELSE Det(TRUE, sec)

\* schedulerInit(): the four baselines read from the clock t
schedulerInitFn(t) ==
    [sec |-> getSecond(t), min |-> getMinute(t),
     hr  |-> getHour(t, FALSE), day |-> getDay(t)]

(***************************************************************************)
(* WiFiService.h.  The machine is the record [state, cnt, calls]: the      *)
(* globals wifiState and wifiWaitSecondCounter, and the requests made to   *)
(* the network layer ("begin" for WiFi.begin, "disconnect" for             *)
(* WiFi.disconnect) by the operation under way.                            *)
(***************************************************************************)
WIFISTATE_DISCONNECTED == 0
WIFISTATE_CONNECTING == 1
WIFISTATE_CONNECTED == 2
WIFISTATE_DISCOWAIT == 3
WIFISTATE_ERRORTIMEOUT == 4

WIFIWAIT_MAX == 30
WIFIRECONNECT_MAX == 60
WIFIDISCOWAIT_MAX == 10

Wifi(st, c, calls) == [state |-> st, cnt |-> c, calls |-> calls]

wifiInitFn(w) == Wifi(WIFISTATE_DISCONNECTED, 0, w.calls)

wifiDisconnectFn(w) ==
    Wifi(WIFISTATE_DISCONNECTED, 0, Append(w.calls, "disconnect"))

wifiConnectFn(w) ==
    Wifi(WIFISTATE_CONNECTING, 0, Append(w.calls, "begin"))

\* if (wifiState == WIFISTATE_CONNECTING) { ... }; s is WiFi.status() == WL_CONNECTED
svcConnecting_Late(w, s) ==
    IF w.state # WIFISTATE_CONNECTING THEN w
    ELSE IF s THEN Wifi(WIFISTATE_CONNECTED, 0, w.calls)
    ELSE IF w.cnt + 1 > WIFIWAIT_MAX
         THEN Wifi(WIFISTATE_ERRORTIMEOUT, 0, Append(w.calls, "disconnect"))
         ELSE Wifi(w.state, w.cnt + 1, w.calls)

svcConnecting(w, s) ==
    IF w.state # WIFISTATE_CONNECTING THEN w
    ELSE IF s THEN Wifi(WIFISTATE_CONNECTED, 0, w.calls)
    ELSE IF w.cnt + 1 >= WIFIWAIT_MAX
         THEN Wifi(WIFISTATE_ERRORTIMEOUT, 0, Append(w.calls, "disconnect"))
         ELSE Wifi(w.state, w.cnt + 1, w.calls)

\* if (wifiState == WIFISTATE_DISCOWAIT) { ... }
svcDiscoWait_Recheck(w, s) ==
    IF w.state # WIFISTATE_DISCOWAIT THEN w
    ELSE IF s THEN Wifi(WIFISTATE_CONNECTED, 0, w.calls)
    ELSE IF w.cnt + 1 >= WIFIDISCOWAIT_MAX
         THEN wifiConnectFn(Wifi(w.state, w.cnt + 1, w.calls))
         ELSE Wifi(w.state, w.cnt + 1, w.calls)

svcDiscoWait_Stuck(w, s) ==
    IF w.state # WIFISTATE_DISCOWAIT THEN w
    ELSE IF w.cnt + 1 >= WIFIDISCOWAIT_MAX
         THEN Wifi(w.state, 0, w.calls)
         ELSE Wifi(w.state, w.cnt + 1, w.calls)

svcDiscoWait(w, s) ==
    IF w.state # WIFISTATE_DISCOWAIT THEN w
    ELSE IF w.cnt + 1 >= WIFIDISCOWAIT_MAX
         THEN wifiConnectFn(Wifi(w.state, w.cnt + 1, w.calls))
         ELSE Wifi(w.state, w.cnt + 1, w.calls)

\* if ((wifiState == WIFISTATE_CONNECTED) && (WiFi.status() != WL_CONNECTED)) { ... }
svcConnected_Immediate(w, s) ==
    IF w.state = WIFISTATE_CONNECTED /\ ~s
    THEN wifiConnectFn(w)
    ELSE w

svcConnected(w, s) ==
    IF w.state = WIFISTATE_CONNECTED /\ ~s
    THEN Wifi(WIFISTATE_DISCOWAIT, 0, w.calls)
    ELSE w

\* if (wifiState == WIFISTATE_ERRORTIMEOUT) { ... }
svcErrorTimeout_NoRetry(w) ==
    IF w.state # WIFISTATE_ERRORTIMEOUT THEN w
    ELSE IF w.cnt + 1 >= WIFIRECONNECT_MAX
         THEN Wifi(w.state, 0, w.calls)
         ELSE Wifi(w.state, w.cnt + 1, w.calls)

svcErrorTimeout(w) ==
    IF w.state # WIFISTATE_ERRORTIMEOUT THEN w
    ELSE IF w.cnt + 1 >= WIFIRECONNECT_MAX
         THEN wifiConnectFn(Wifi(w.state, w.cnt + 1, w.calls))
         ELSE Wifi(w.state, w.cnt + 1, w.calls)

\* The state after the first two blocks of wifiService(); s1 is the status
\* read in the Connecting block.
wifiServiceMid(w, s1) == svcDiscoWait(svcConnecting(w, s1), s1)

wifiServiceFn_AutoConnect(w, s1, s2) ==
    IF w.state = WIFISTATE_DISCONNECTED /\ ~s1
    THEN wifiConnectFn(w)
    ELSE svcErrorTimeout(svcConnected(wifiServiceMid(w, s1), s2))

\* wifiService(): four consecutive ifs, none of them an else-branch of
\* another, so a block sees the state the blocks above it left.  s2 is the
\* status read in the Connected block.
wifiServiceFn(w, s1, s2) ==
    svcErrorTimeout(svcConnected(wifiServiceMid(w, s1), s2))

(***************************************************************************)
(* NTPService.h.  The machine is the record [state, wait, attempts,        *)
(* success, rtc, base, calls]: the four globals, the clock and the         *)
(* detector baselines it writes through rtc.setTime() and schedulerInit(), *)
(* and the requests made by the operation under way, in order.             *)
(***************************************************************************)
NTPSTATE_IDLE == 0
NTPSTATE_STARTED == 1
NTPSTATE_COMPLETE == 2
NTPSTATE_TIMEOUTERROR == 3

NTPWAIT_MAX == 30

ntpInitFn(n) ==
    [n EXCEPT !.state = NTPSTATE_IDLE, !.wait = 0, !.attempts = 0,
              !.success = FALSE]

ntpStartFn_ResetAttempts(n) ==
    [n EXCEPT !.state = NTPSTATE_STARTED, !.wait = 0, !.success = FALSE,
              !.attempts = 0,
              !.calls = n.calls \o <<"begin", "setTimeOffset">>]

ntpStartFn_KeepSuccess(n) ==
    [n EXCEPT !.state = NTPSTATE_STARTED, !.wait = 0,
              !.calls = n.calls \o <<"begin", "setTimeOffset">>]

ntpStartFn(n) ==
    [n EXCEPT !.state = NTPSTATE_STARTED, !.wait = 0, !.success = FALSE,
              !.calls = n.calls \o <<"begin", "setTimeOffset">>]

\* rtc.setTime(epochTime)
rtcSetTime(n, e) ==
    [n EXCEPT !.rtc = e, !.calls = Append(n.calls, "setTime")]

\* schedulerInit() as called from ntpService(): reads the clock as it is now
ntpSchedulerInit(n) ==
    [n EXCEPT !.base = schedulerInitFn(n.rtc),
              !.calls = Append(n.calls, "schedulerInit")]

\* the branch taken when timeClient.update() returns true; e is getEpochTime()
ntpSucceed_NoReset(n, e) ==
    LET n1 == [n EXCEPT !.calls = n.calls \o <<"update", "getEpochTime">>]
        n2 == rtcSetTime(n1, e)
    IN  [n2 EXCEPT !.success = TRUE, !.attempts = n.attempts + 1,
                   !.state = NTPSTATE_COMPLETE]

ntpSucceed_ResetFirst(n, e) ==
    LET n1 == [n EXCEPT !.calls = n.calls \o <<"update", "getEpochTime">>]
        n2 == ntpSchedulerInit(n1)
        n3 == rtcSetTime(n2, e)
    IN  [n3 EXCEPT !.success = TRUE, !.attempts = n.attempts + 1,
                   !.state = NTPSTATE_COMPLETE]

ntpSucceed(n, e) ==
    LET n1 == [n EXCEPT !.calls = n.calls \o <<"update", "getEpochTime">>]
        n2 == rtcSetTime(n1, e)
        n3 == ntpSchedulerInit(n2)
    IN  [n3 EXCEPT !.success = TRUE, !.attempts = n.attempts + 1,
                   !.state = NTPSTATE_COMPLETE]

\* the branch taken when timeClient.update() returns false
ntpWait_Late(n) ==
    LET n1 == [n EXCEPT !.calls = n.calls \o <<"update", "forceUpdate">>,
                        !.wait = n.wait + 1]
    IN  IF n1.wait > NTPWAIT_MAX
        THEN [n1 EXCEPT !.state = NTPSTATE_TIMEOUTERROR, !.success = FALSE]
        ELSE n1

ntpWait_CountsTimeout(n) ==
    LET n1 == [n EXCEPT !.calls = n.calls \o <<"update", "forceUpdate">>,
                        !.wait = n.wait + 1]
    IN  IF n1.wait >= NTPWAIT_MAX
        THEN [n1 EXCEPT !.state = NTPSTATE_TIMEOUTERROR, !.success = FALSE,
                        !.attempts = n.attempts + 1]
        ELSE n1

ntpWait(n) ==
    LET n1 == [n EXCEPT !.calls = n.calls \o <<"update", "forceUpdate">>,
                        !.wait = n.wait + 1]
    IN  IF n1.wait >= NTPWAIT_MAX
        THEN [n1 EXCEPT !.state = NTPSTATE_TIMEOUTERROR, !.success = FALSE]
        ELSE n1

\* ntpService(); ok is the result of timeClient.update(), e the epoch it holds
ntpServiceFn_Retry(n, ok, e) ==
    IF n.state = NTPSTATE_TIMEOUTERROR THEN ntpStartFn(n)
    ELSE IF n.state # NTPSTATE_STARTED THEN n
    ELSE IF ok THEN ntpSucceed(n, e)
    ELSE ntpWait(n)

ntpServiceFn(n, ok, e) ==
    IF n.state # NTPSTATE_STARTED THEN n
    ELSE IF ok THEN ntpSucceed(n, e)
    ELSE ntpWait(n)

(***************************************************************************)
(* Initial state: the initialisers of the globals; the clock holds one of  *)
(* the boot instants and the network layer is not associated.              *)
(***************************************************************************)
NoneSeen == [sec |-> Unseen, min |-> Unseen, hr |-> Unseen, day |-> Unseen]

Issued(calls, req) == \E i \in DOMAIN calls : calls[i] = req

Count(calls, req) == Cardinality({i \in DOMAIN calls : calls[i] = req})

Init ==
    /\ rtc \in BootEpochs
    /\ lastSec = -1 /\ lastMin = -1 /\ lastHr = -1 /\ lastDay = -1
    /\ wifiState = WIFISTATE_DISCONNECTED
    /\ wifiWaitSecondCounter = 0
    /\ wlStatus = FALSE
    /\ ntpState = NTPSTATE_IDLE
    /\ ntpWaitSecondCounter = 0
    /\ ntpAttempts = 0
    /\ ntpSuccess = FALSE
    /\ last = Op("boot", FALSE, 0, <<>>)
    /\ prevSeen = NoneSeen
    /\ hConn = Unseen /\ hErr = Unseen /\ hDisc = Unseen
    /\ sinceBegin = Unseen /\ gap = Unseen
    /\ nFail = Unseen /\ attAtStart = 0 /\ wrote = FALSE
    /\ completions = 0

(***************************************************************************)
(* The clock and the calendar edge detectors.                              *)
(***************************************************************************)
\* one second passes
Tick ==
    /\ \E b \in BootEpochs : rtc >= b /\ rtc < b + MaxTicks
    /\ rtc' = rtc + 1
    /\ last' = Op("Tick", FALSE, 0, <<>>)
    /\ UNCHANGED <<schedVars, wifiVars, ntpVars>>

dayDetector ==
    LET day == getDay(rtc)
        r   == dayDetect(day, lastDay)
    IN  /\ lastDay' = r.last
        /\ last' = Op("dayDetector", r.ret, day, <<>>)
        /\ prevSeen' = [prevSeen EXCEPT !.day = day]
        /\ UNCHANGED <<rtc, lastSec, lastMin, lastHr, wifiVars, ntpVars>>

hourDetector ==
    LET hr == getHour(rtc, TRUE)
        r  == hourDetect(hr, lastHr)
    IN  /\ lastHr' = r.last
        /\ last' = Op("hourDetector", r.ret, hr, <<>>)
        /\ prevSeen' = [prevSeen EXCEPT !.hr = hr]
        /\ UNCHANGED <<rtc, lastSec, lastMin, lastDay, wifiVars, ntpVars>>

minuteDetector ==
    LET zmin == getMinute(rtc)
        r    == minuteDetect(zmin, lastMin)
    IN  /\ lastMin' = r.last
        /\ last' = Op("minuteDetector", r.ret, zmin, <<>>)
        /\ prevSeen' = [prevSeen EXCEPT !.min = zmin]
        /\ UNCHANGED <<rtc, lastSec, lastHr, lastDay, wifiVars, ntpVars>>

secondDetector ==
    LET sec == getSecond(rtc)
        r   == secondDetect(sec, lastSec)
    IN  /\ lastSec' = r.last
        /\ last' = Op("secondDetector", r.ret, sec, <<>>)
        /\ prevSeen' = [prevSeen EXCEPT !.sec = sec]
        /\ UNCHANGED <<rtc, lastMin, lastHr, lastDay, wifiVars, ntpVars>>

schedulerInit ==
    LET base == schedulerInitFn(rtc)
    IN  /\ lastSec' = base.sec
        /\ lastMin' = base.min
        /\ lastHr'  = base.hr
        /\ lastDay' = base.day
        /\ last' = Op("schedulerInit", FALSE, 0, <<>>)
        /\ prevSeen' = NoneSeen
        /\ UNCHANGED <<rtc, wifiVars, ntpVars>>

(***************************************************************************)
(* The connectivity machine.                                               *)
(***************************************************************************)
W0 == Wifi(wifiState, wifiWaitSecondCounter, <<>>)

\* the network layer gains or loses the association between two operations
WiFiEvent ==
    /\ wlStatus' = ~wlStatus
    /\ last' = Op("WiFiEvent", FALSE, 0, <<>>)
    /\ UNCHANGED <<rtc, schedVars, ntpVars, wifiState, wifiWaitSecondCounter,
                   hConn, hErr, hDisc, sinceBegin, gap>>

wifiInit ==
    LET w == wifiInitFn(W0)
    IN  /\ wifiState' = w.state
        /\ wifiWaitSecondCounter' = w.cnt
        /\ last' = Op("wifiInit", FALSE, 0, w.calls)
        /\ hConn' = Unseen /\ hErr' = Unseen /\ hDisc' = Unseen
        /\ sinceBegin' = Unseen /\ gap' = Unseen
        /\ UNCHANGED <<rtc, schedVars, ntpVars, wlStatus>>

wifiDisconnect ==
    LET w == wifiDisconnectFn(W0)
    IN  /\ wifiState' = w.state
        /\ wifiWaitSecondCounter' = w.cnt
        /\ last' = Op("wifiDisconnect", FALSE, 0, w.calls)
        /\ hConn' = Unseen /\ hErr' = Unseen /\ hDisc' = Unseen
        /\ sinceBegin' = Unseen /\ gap' = Unseen
        /\ UNCHANGED <<rtc, schedVars, ntpVars, wlStatus>>

wifiConnect ==
    LET w == wifiConnectFn(W0)
    IN  /\ wifiState' = w.state
        /\ wifiWaitSecondCounter' = w.cnt
        /\ last' = Op("wifiConnect", FALSE, 0, w.calls)
        /\ hConn' = 0 /\ hErr' = Unseen /\ hDisc' = Unseen
        /\ sinceBegin' = Unseen /\ gap' = Unseen
        /\ UNCHANGED <<rtc, schedVars, ntpVars, wlStatus>>

\* One call of wifiService().  The first status read returns wlStatus; the
\* network layer may change the status before the second read (flip).
wifiService ==
    \E flip \in BOOLEAN :
        LET s1  == wlStatus
            s2  == IF flip THEN ~wlStatus ELSE wlStatus
            mid == wifiServiceMid(W0, s1)
            w   == wifiServiceFn(W0, s1, s2)
        IN  /\ wifiState' = w.state
            /\ wifiWaitSecondCounter' = w.cnt
            /\ wlStatus' = s2
            /\ last' = Op("wifiService", FALSE, 0, w.calls)
            /\ hConn' = IF Issued(w.calls, "begin") THEN 0
                        ELSE IF hConn \in 0..(WIFIWAIT_MAX - 1) /\ ~s1 /\ ~s2
                             THEN hConn + 1
                        ELSE Unseen
            /\ hErr' = IF wifiState = WIFISTATE_CONNECTING
                          /\ mid.state = WIFISTATE_ERRORTIMEOUT THEN 0
                       ELSE IF hErr \in 0..(WIFIRECONNECT_MAX - 1) THEN hErr + 1
                       ELSE Unseen
            /\ hDisc' = IF mid.state = WIFISTATE_CONNECTED /\ ~s2 THEN 0
                        ELSE IF hDisc \in 0..(WIFIDISCOWAIT_MAX - 1) THEN hDisc + 1
                        ELSE Unseen
            /\ sinceBegin' = IF Issued(w.calls, "begin") THEN 0
                             ELSE IF sinceBegin = Unseen THEN Unseen
                             ELSE IF sinceBegin < WIFIDISCOWAIT_MAX
                                  THEN sinceBegin + 1
                             ELSE sinceBegin
            /\ gap' = IF Issued(w.calls, "begin") THEN sinceBegin ELSE gap
            /\ UNCHANGED <<rtc, schedVars, ntpVars>>

(***************************************************************************)
(* The time-sync machine.                                                  *)
(***************************************************************************)
N0 ==
    [state |-> ntpState, wait |-> ntpWaitSecondCounter,
     attempts |-> ntpAttempts, success |-> ntpSuccess, rtc |-> rtc,
     base |-> [sec |-> lastSec, min |-> lastMin, hr |-> lastHr, day |-> lastDay],
     calls |-> <<>>]

\* the program state after an operation of the time-sync machine left n
NtpAssign(n) ==
    /\ ntpState' = n.state
    /\ ntpWaitSecondCounter' = n.wait
    /\ ntpAttempts' = n.attempts
    /\ ntpSuccess' = n.success
    /\ rtc' = n.rtc
    /\ lastSec' = n.base.sec
    /\ lastMin' = n.base.min
    /\ lastHr'  = n.base.hr
    /\ lastDay' = n.base.day
    /\ prevSeen' = IF Issued(n.calls, "schedulerInit") THEN NoneSeen ELSE prevSeen

NtpWrote(n) ==
    \/ n.rtc # rtc
    \/ n.base # N0.base
    \/ Issued(n.calls, "setTime")
    \/ Issued(n.calls, "schedulerInit")

\* 1 if the operation that left n moved the machine into Complete, else 0
IntoComplete(n) ==
    IF n.state = NTPSTATE_COMPLETE /\ ntpState # NTPSTATE_COMPLETE THEN 1 ELSE 0

ntpInit ==
    LET n == ntpInitFn(N0)
    IN  /\ NtpAssign(n)
        /\ last' = Op("ntpInit", FALSE, 0, n.calls)
        /\ nFail' = Unseen
        /\ wrote' = (wrote \/ NtpWrote(n))
        /\ completions' = 0
        /\ UNCHANGED <<attAtStart, wifiVars>>

ntpStart ==
    LET n == ntpStartFn(N0)
    IN  /\ NtpAssign(n)
        /\ last' = Op("ntpStart", FALSE, 0, n.calls)
        /\ nFail' = 0
        /\ attAtStart' = ntpAttempts
        /\ wrote' = NtpWrote(n)
        /\ completions' = completions + IntoComplete(n)
        /\ UNCHANGED wifiVars

\* One call of ntpService().  ok and e are what the time client answers if
\* it is asked: update() and getEpochTime().
ntpService ==
    \E ok \in BOOLEAN, e \in NtpEpochs :
        LET n     == ntpServiceFn(N0, ok, e)
            asked == ntpState = NTPSTATE_STARTED
        IN  /\ n.attempts <= MaxAttempts
            /\ NtpAssign(n)
            /\ last' = Op("ntpService", FALSE,
                          IF asked /\ ok THEN e ELSE -1, n.calls)
            /\ nFail' = IF asked /\ ~ok /\ nFail \in 0..(NTPWAIT_MAX - 1)
                        THEN nFail + 1 ELSE Unseen
            /\ wrote' = (wrote \/ NtpWrote(n))
            /\ completions' = completions + IntoComplete(n)
            /\ UNCHANGED <<attAtStart, wifiVars>>

(***************************************************************************)
(* Specifications.  The three components share no program state except    *)
(* the clock and the baselines the time-sync machine writes, so each is    *)
(* checked with its own operations.                                        *)
(***************************************************************************)
SchedNext ==
    \/ Tick
    \/ dayDetector
    \/ hourDetector
    \/ minuteDetector
    \/ secondDetector
    \/ schedulerInit

WifiNext ==
    \/ WiFiEvent
    \/ wifiInit
    \/ wifiDisconnect
    \/ wifiConnect
    \/ wifiService

\* no caller invokes wifiDisconnect() or wifiInit()
WifiRunNext ==
    \/ WiFiEvent
    \/ wifiConnect
    \/ wifiService

NtpNext ==
    \/ ntpInit
    \/ ntpStart
    \/ ntpService

Next == SchedNext \/ WifiNext \/ NtpNext

Spec == Init /\ [][Next]_vars

SchedSpec == Init /\ [][SchedNext]_vars

WifiSpec == Init /\ [][WifiNext]_vars

NtpSpec == Init /\ [][NtpNext]_vars

\* the two service machines side by side, as the driver loop runs them
WifiNtpNext == WifiNext \/ NtpNext

\* neither wait counter depends on the clock: one boot instant
WifiNtpInit == Init /\ rtc = 12 * 3600 + 59 * 60 + 58

WifiNtpSpec == WifiNtpInit /\ [][WifiNtpNext]_vars

\* the driver loop keeps calling wifiService()
WifiLiveSpec == Init /\ [][WifiRunNext]_vars /\ WF_vars(wifiService)

(***************************************************************************)
(* Properties.                                                             *)
(***************************************************************************)
DetectorOps == {"secondDetector", "minuteDetector", "hourDetector", "dayDetector"}

\* C1: a detector called right after schedulerInit(), with the clock
\* unchanged since the reset, returns false -- for each of the four
\* detectors.  (Every operation and every tick writes `last`, so a detector
\* step taken from a state with last.op = "schedulerInit" is the first thing
\* that happens after the reset.)
C1_ResetSuppressesRefire ==
    [][(last.op = "schedulerInit" /\ last'.op \in DetectorOps)
          => last'.ret = FALSE]_vars

\* C2: after the wifiService() call that enters ErrorTimeout, each of the
\* next 59 wifiService() calls leaves the state ErrorTimeout, and the 60th
\* leaves it Connecting, having issued the association request.
C2_ErrorTimeoutLasts60Calls ==
    /\ hErr \in 1..(WIFIRECONNECT_MAX - 1) => wifiState = WIFISTATE_ERRORTIMEOUT
    /\ hErr = WIFIRECONNECT_MAX =>
          /\ wifiState = WIFISTATE_CONNECTING
          /\ last.op = "wifiService" => Issued(last.calls, "begin")

\* C3: counting the wifiService() calls since wifiConnect() during which the
\* network layer reported not-associated and no other operation ran: after
\* each of the first 29 the state is Connecting, after the 30th it is
\* ErrorTimeout and that call issued the disassociation request.
C3_ConnectTimeoutBoundary ==
    /\ hConn \in 0..(WIFIWAIT_MAX - 1) => wifiState = WIFISTATE_CONNECTING
    /\ hConn = WIFIWAIT_MAX =>
          /\ wifiState = WIFISTATE_ERRORTIMEOUT
          /\ last.op = "wifiService" => Issued(last.calls, "disconnect")

C3_Witness ==
    /\ hConn = WIFIWAIT_MAX
    /\ last.op = "wifiService"
    /\ wifiState = WIFISTATE_ERRORTIMEOUT

\* C4: the wifiService() call that finds the machine Connected and the
\* network layer not associated leaves DisconnectWait with the counter at 0;
\* each of the next 9 calls leaves DisconnectWait; the 10th leaves Connecting
\* and issued the association request -- whatever the status is meanwhile.
C4_SpontaneousDisconnectPath ==
    /\ hDisc = 0 =>
          /\ wifiState = WIFISTATE_DISCOWAIT
          /\ wifiWaitSecondCounter = 0
    /\ hDisc \in 1..(WIFIDISCOWAIT_MAX - 1) => wifiState = WIFISTATE_DISCOWAIT
    /\ hDisc = WIFIDISCOWAIT_MAX =>
          /\ wifiState = WIFISTATE_CONNECTING
          /\ last.op = "wifiService" => Issued(last.calls, "begin")

C4_Witness ==
    /\ hDisc = WIFIDISCOWAIT_MAX
    /\ last.op = "wifiService"
    /\ wifiState = WIFISTATE_CONNECTING
    /\ wlStatus

\* C5: a ntpService() call made in state Started whose update() succeeds
\* (last'.arg is the epoch it returned) sets the clock to that epoch, calls
\* schedulerInit() exactly once (the baselines are those of the new clock),
\* sets ntpSuccess, adds exactly 1 to ntpAttempts, leaves Complete, never
\* calls forceUpdate() and leaves ntpWaitSecondCounter alone.
C5_SyncSuccessEffect ==
    [][(ntpState = NTPSTATE_STARTED /\ last'.op = "ntpService" /\ last'.arg >= 0)
          => /\ rtc' = last'.arg
             /\ Count(last'.calls, "setTime") = 1
             /\ Count(last'.calls, "schedulerInit") = 1
             /\ lastSec' = getSecond(last'.arg)
             /\ lastMin' = getMinute(last'.arg)
             /\ lastHr'  = getHour(last'.arg, FALSE)
             /\ lastDay' = getDay(last'.arg)
             /\ ntpSuccess' = TRUE
             /\ ntpAttempts' = ntpAttempts + 1
             /\ ntpState' = NTPSTATE_COMPLETE
             /\ ~Issued(last'.calls, "forceUpdate")
             /\ ntpWaitSecondCounter' = ntpWaitSecondCounter]_vars

C5_Witness ==
    /\ last.op = "ntpService"
    /\ last.arg >= 0
    /\ ntpState = NTPSTATE_COMPLETE
    /\ rtc = last.arg
    /\ ntpWaitSecondCounter > 0

\* C6: counting the ntpService() calls since ntpStart() whose update()
\* failed: after each of the first 29 the state is Started, after the 30th
\* it is TimeoutError with ntpSuccess false; throughout, ntpAttempts is what
\* it was before ntpStart() and neither the clock nor a baseline was written.
C6_SyncTimeout ==
    /\ nFail \in 0..(NTPWAIT_MAX - 1) => ntpState = NTPSTATE_STARTED
    /\ nFail = NTPWAIT_MAX =>
          /\ ntpState = NTPSTATE_TIMEOUTERROR
          /\ ntpSuccess = FALSE
    /\ nFail \in 0..NTPWAIT_MAX =>
          /\ ntpAttempts = attAtStart
          /\ ~wrote

C6_Witness ==
    /\ nFail = NTPWAIT_MAX
    /\ ntpState = NTPSTATE_TIMEOUTERROR
    /\ attAtStart > 0

\* C7: a detector that has been called before (with no reset since) returns
\* true exactly when the clock field differs from the value its previous
\* call saw; so repeated calls on an unchanged field return false.
C7_EdgeTrigger ==
    [][/\ (last'.op = "secondDetector" /\ prevSeen.sec # Unseen)
            => last'.ret = (getSecond(rtc) # prevSeen.sec)
       /\ (last'.op = "minuteDetector" /\ prevSeen.min # Unseen)
            => last'.ret = (getMinute(rtc) # prevSeen.min)
       /\ (last'.op = "hourDetector" /\ prevSeen.hr # Unseen)
            => last'.ret = (getHour(rtc, TRUE) # prevSeen.hr)
       /\ (last'.op = "dayDetector" /\ prevSeen.day # Unseen)
            => last'.ret = (getDay(rtc) # prevSeen.day)]_vars

\* every detector has been called at least twice in a row and the day
\* detector has just fired on a day change
C7_Witness ==
    /\ last.op = "dayDetector"
    /\ last.ret = TRUE
    /\ prevSeen.sec # Unseen /\ prevSeen.min # Unseen /\ prevSeen.hr # Unseen
    /\ lastSec = getSecond(rtc)
    /\ lastMin = getMinute(rtc)
    /\ lastHr = getHour(rtc, TRUE)

\* C8: the first call of a detector, made from the unset baseline -1 with no
\* reset before it: dayDetector returns false and only stores the day;
\* secondDetector, minuteDetector and hourDetector return true and store the
\* field.
C8_FirstObservation ==
    [][/\ (last'.op = "dayDetector" /\ lastDay = -1 /\ prevSeen.day = Unseen)
            => /\ last'.ret = FALSE
               /\ lastDay' = getDay(rtc)
               /\ UNCHANGED <<rtc, lastSec, lastMin, lastHr>>
       /\ (last'.op = "secondDetector" /\ lastSec = -1 /\ prevSeen.sec = Unseen)
            => /\ last'.ret = TRUE
               /\ lastSec' = getSecond(rtc)
       /\ (last'.op = "minuteDetector" /\ lastMin = -1 /\ prevSeen.min = Unseen)
            => /\ last'.ret = TRUE
               /\ lastMin' = getMinute(rtc)
       /\ (last'.op = "hourDetector" /\ lastHr = -1 /\ prevSeen.hr = Unseen)
            => /\ last'.ret = TRUE
               /\ lastHr' = getHour(rtc, TRUE)]_vars

\* the day detector alone has run, from the unset baseline, and stored the day
C8_Witness ==
    /\ last.op = "dayDetector"
    /\ last.ret = FALSE
    /\ lastDay = getDay(rtc)
    /\ lastSec = -1 /\ lastMin = -1 /\ lastHr = -1
    /\ prevSeen.sec = Unseen /\ prevSeen.min = Unseen /\ prevSeen.hr = Unseen

\* C9: ntpService() called in Idle, Complete or TimeoutError changes nothing
\* and asks the time client nothing; Complete and TimeoutError are left only
\* by ntpStart() or ntpInit(); Started is entered only by ntpStart().
C9_NoSelfStart ==
    [][/\ (last'.op = "ntpService" /\ ntpState # NTPSTATE_STARTED)
            => /\ UNCHANGED <<ntpState, ntpWaitSecondCounter, ntpAttempts,
                              ntpSuccess, rtc, lastSec, lastMin, lastHr, lastDay>>
               /\ last'.calls = <<>>
       /\ (ntpState \in {NTPSTATE_COMPLETE, NTPSTATE_TIMEOUTERROR}
             /\ ntpState' # ntpState)
            => last'.op \in {"ntpStart", "ntpInit"}
       /\ (ntpState # NTPSTATE_STARTED /\ ntpState' = NTPSTATE_STARTED)
            => last'.op = "ntpStart"]_vars

\* ntpService() has been called in TimeoutError (the call that times out makes
\* requests; one that makes none found the machine already timed out)
C9_Witness ==
    /\ last.op = "ntpService"
    /\ last.calls = <<>>
    /\ ntpState = NTPSTATE_TIMEOUTERROR

\* C10: while wifiService() keeps being called and nobody calls
\* wifiDisconnect() or wifiInit(), ErrorTimeout leads to Connecting.
C10_ErrorTimeoutRetries ==
    (wifiState = WIFISTATE_ERRORTIMEOUT) ~> (wifiState = WIFISTATE_CONNECTING)

\* the wifiService() call that ends the ErrorTimeout wait has reconnected
C10_Witness ==
    /\ hErr \in 1..WIFIRECONNECT_MAX
    /\ wifiWaitSecondCounter = 0
    /\ wifiState = WIFISTATE_CONNECTING
    /\ last.op = "wifiService"
    /\ Issued(last.calls, "begin")

\* C11: a wifiService() call made in Disconnected leaves wifiState and
\* wifiWaitSecondCounter as they were and makes no request to the network
\* layer, whatever the status; Disconnected is left only by wifiConnect().
C11_DisconnectedPassive ==
    [][/\ (wifiState = WIFISTATE_DISCONNECTED /\ last'.op = "wifiService")
            => /\ wifiState' = WIFISTATE_DISCONNECTED
               /\ wifiWaitSecondCounter' = wifiWaitSecondCounter
               /\ last'.calls = <<>>
       /\ (wifiState = WIFISTATE_DISCONNECTED
             /\ wifiState' # WIFISTATE_DISCONNECTED)
            => last'.op = "wifiConnect"]_vars

\* wifiService() has run in Disconnected while the network layer reported
\* associated, and the machine is still Disconnected
C11_Witness ==
    /\ wifiState = WIFISTATE_DISCONNECTED
    /\ last.op = "wifiService"
    /\ wlStatus
    /\ wifiWaitSecondCounter = 0

\* C12: every operation of the connectivity machine that returns with
\* wifiState changed returns with wifiWaitSecondCounter = 0.
C12_CounterZeroOnTransition ==
    [][(wifiState' # wifiState) => wifiWaitSecondCounter' = 0]_vars

\* C13 (as stated): no step of ntpInit(), ntpStart() or ntpService() lowers
\* ntpAttempts.
C13_AttemptsNeverDecrease ==
    [][ntpAttempts' >= ntpAttempts]_vars

\* C13 (amended): no step of ntpStart() or ntpService() lowers ntpAttempts;
\* ntpInit() sets it to 0.
C13_AttemptsResetOnlyByInit ==
    [][/\ last'.op \in {"ntpStart", "ntpService"} => ntpAttempts' >= ntpAttempts
       /\ last'.op = "ntpInit" => ntpAttempts' = 0]_vars

\* a new sync has been started after one that completed, and the count is kept
C13_Witness ==
    /\ last.op = "ntpStart"
    /\ ntpAttempts > 0
    /\ ntpState = NTPSTATE_STARTED

\* C14: a step of ntpStart() or ntpService() adds exactly 1 to ntpAttempts
\* if it moves ntpState into Complete and leaves ntpAttempts alone otherwise
\* (timeouts and ntpStart() included); so ntpAttempts always equals the
\* number of steps into Complete since the last ntpInit().
C14_AttemptsCountCompletions ==
    /\ [][last'.op \in {"ntpStart", "ntpService"} =>
            ntpAttempts' = ntpAttempts +
                (IF ntpState' = NTPSTATE_COMPLETE /\ ntpState # NTPSTATE_COMPLETE
                 THEN 1 ELSE 0)]_vars
    /\ [](ntpAttempts = completions)

\* a sync has timed out after an earlier one completed: one completion counted
C14_Witness ==
    /\ ntpState = NTPSTATE_TIMEOUTERROR
    /\ last.op = "ntpService"
    /\ completions = 1
    /\ ntpAttempts = 1

\* C15: between operations, Connecting holds a counter below 30,
\* DisconnectWait below 10, ErrorTimeout below 60 and time-sync Started below
\* 30: no wait state outlives its threshold of consecutive service calls.
C15_WaitStatesBounded ==
    /\ wifiState = WIFISTATE_CONNECTING => wifiWaitSecondCounter < WIFIWAIT_MAX
    /\ wifiState = WIFISTATE_DISCOWAIT => wifiWaitSecondCounter < WIFIDISCOWAIT_MAX
    /\ wifiState = WIFISTATE_ERRORTIMEOUT => wifiWaitSecondCounter < WIFIRECONNECT_MAX
    /\ ntpState = NTPSTATE_STARTED => ntpWaitSecondCounter < NTPWAIT_MAX
    /\ wifiWaitSecondCounter >= 0
    /\ ntpWaitSecondCounter >= 0

\* both machines are one service call short of their thresholds
C15_Witness ==
    /\ wifiState = WIFISTATE_ERRORTIMEOUT
    /\ wifiWaitSecondCounter = WIFIRECONNECT_MAX - 1
    /\ ntpState = NTPSTATE_STARTED
    /\ ntpWaitSecondCounter = NTPWAIT_MAX - 1

Index(calls, req) == CHOOSE i \in DOMAIN calls : calls[i] = req

\* C16: in a successful ntpService() call rtc.setTime() comes before
\* schedulerInit() and nothing but these two follows getEpochTime(), so the
\* baselines the call leaves are the readings of the new clock, whatever the
\* old clock and the new epoch were.
C16_SyncThenReset ==
    [][(ntpState = NTPSTATE_STARTED /\ last'.op = "ntpService" /\ last'.arg >= 0)
          => /\ last'.calls = <<"update", "getEpochTime", "setTime", "schedulerInit">>
             /\ Index(last'.calls, "setTime") < Index(last'.calls, "schedulerInit")
             /\ <<lastSec', lastMin', lastHr', lastDay'>> =
                   <<getSecond(rtc'), getMinute(rtc'), getHour(rtc', FALSE),
                     getDay(rtc')>>
             /\ prevSeen' = NoneSeen]_vars

\* a sync has replaced a clock whose every field differed from the new one's
\* (the boot instants all read xx:59:58, no server epoch does), and the
\* baselines are the new readings
C16_Witness ==
    /\ last.op = "ntpService"
    /\ last.arg >= 0
    /\ completions = 1
    /\ rtc = 18 * 3600 + 45 * 60 + 59
    /\ lastSec = 59 /\ lastMin = 45 /\ lastHr = 6 /\ lastDay = 1

\* C17: in every state reachable by ntpInit(), ntpStart() and ntpService(),
\* ntpSuccess is true exactly when ntpState is Complete, so ntpComplete()
\* is false again once a new sync is started and stays false after a timeout.
C17_SuccessIffComplete ==
    ntpSuccess = (ntpState = NTPSTATE_COMPLETE)

\* a second sync has been started after a completed one: the flag is down again
C17_Witness ==
    /\ last.op = "ntpStart"
    /\ completions > 0
    /\ ntpState = NTPSTATE_STARTED
    /\ ~ntpSuccess

\* C18: between callers' operations, whatever the network layer reports
\* (a link that flaps on every call included), two consecutive WiFi.begin
\* requests issued by wifiService() itself have at least WIFIDISCOWAIT_MAX
\* wifiService() calls between them.
C18_NoHotLoop ==
    [][(last'.op = "wifiService" /\ Issued(last'.calls, "begin")
          /\ sinceBegin # Unseen)
          => sinceBegin >= WIFIDISCOWAIT_MAX]_vars

\* wifiService() has just issued its second request in a row, exactly
\* WIFIDISCOWAIT_MAX calls after its previous one: the link came up on the
\* call after the request and dropped within that same call
C18_Witness ==
    /\ last.op = "wifiService"
    /\ Issued(last.calls, "begin")
    /\ sinceBegin = 0
    /\ gap = WIFIDISCOWAIT_MAX
    /\ hDisc = WIFIDISCOWAIT_MAX

\* C19 as stated: once wifiConnect() has been called, with wifiService()
\* called for ever, no wifiDisconnect() or wifiInit(), and the network layer
\* reporting associated from some point on, the state becomes Connected and
\* stays Connected.  A caller that keeps calling wifiConnect() puts the
\* machine back into Connecting each time.
C19_EventuallyConnected ==
    (<>(wifiState # WIFISTATE_DISCONNECTED) /\ <>[]wlStatus)
        => <>[](wifiState = WIFISTATE_CONNECTED)

\* C19: the same, for a caller that calls wifiConnect() only finitely often.
C19_EventuallyConnectedUnlessRestarted ==
    (/\ <>(wifiState # WIFISTATE_DISCONNECTED)
     /\ <>[]wlStatus
     /\ <>[](last.op # "wifiConnect"))
        => <>[](wifiState = WIFISTATE_CONNECTED)

\* the machine has come back by itself: the call after a request that
\* wifiService() issued found the link up
C19_Witness ==
    /\ last.op = "wifiService"
    /\ sinceBegin = 1
    /\ wlStatus
    /\ wifiState = WIFISTATE_CONNECTED

====
